---- MODULE Spec2Model ----
(***************************************************************************)
(* Civic issue intelligence engine: the report, cluster and feedback       *)
(* tables behind the Express handlers of src/src/lib/utils.ts and the seed *)
(* script src/unnamed/part_000.                                            *)
(*                                                                         *)
(* Every `await prisma...` of a handler is one step of the request that    *)
(* runs it, so that concurrent requests interleave between storage calls.  *)
(* The seed script is run by an operator while no request is in flight:    *)
(* its data phase is one step and its statistics sweep one step a cluster. *)
(*                                                                         *)
(* Text that is searched (cluster names, topic suggestions) is a sequence  *)
(* of one-character strings. Sentiment scores are in tenths (-8 is -0.8),  *)
(* a mean is an exact fraction <<numerator, denominator>> in lowest terms. *)
(* Timestamps count clock ticks of TickMs milliseconds.                    *)
(*                                                                         *)
(* Storage is what the source shows of it: create inserts a row, update    *)
(* and findUnique address a row by id, and apart from ids and the users'   *)
(* e-mail (upsert) no column is known to be unique. Any storage call of a  *)
(* handler may throw; the handler's catch block then answers 500.          *)
(*                                                                         *)
(* The analytics routes (stats, strategic report) and the analyze route    *)
(* are followed in a specification of their own, over a database the       *)
(* write routes have filled. There one client sends one request at a time; *)
(* a handler's reads are one snapshot and its clock is read once; the      *)
(* server's time zone is UTC or a zone with summer time; an oracle call    *)
(* ends in one of the ways its caller can tell apart, or does not end.     *)
(* A calendar date is a day number, an avg_time an exact fraction.         *)
(*                                                                         *)
(* Whether { contains } tells letter case apart is the database's          *)
(* collation, which the source does not fix (the query sets no mode). The  *)
(* requests of the two specifications above are spelled as the stored      *)
(* names are, so both collations answer them alike; the resolver is        *)
(* followed under either collation, with suggestions in other spellings,   *)
(* in a third specification.                                               *)
(***************************************************************************)
EXTENDS Integers, Sequences, FiniteSets, TLC

VARIABLES
    users,         \* table User: sequence of [email, role], id = index
    clusters,      \* table Cluster: sequence of records, id = index
    problems,      \* table Problem: sequence of records, id = index
    comments,      \* table ResolvedComment: sequence of records
    now,           \* the wall clock, in ticks
    seed,          \* the seed script: [pc, runs, todo]
    req,           \* the requests in flight, one record a slot
    budget,        \* the events the environment may still cause: a request, a
                   \* storage failure, a clock advance, a rerun of the seed
    failed,        \* whether a storage call has thrown
    fresh,         \* clusters refreshed with no report written since
    view           \* the server's time zone and the database's collation; the
                   \* analytics or oracle request in flight, what the client
                   \* holds

vars == <<users, clusters, problems, comments, now, seed, req,
          budget, failed, fresh, view>>

-----------------------------------------------------------------------------
(* Bounds of the model *)

MaxInFlight == 2      \* request slots
MaxEvents == 3        \* requests received, storage calls that throw, clock
                      \* advances, registrations and reruns of the seed
                      \* script, together
TickMs == 500         \* milliseconds in one clock tick
MaxCalls == 2         \* analytics and analyze requests a client sends

(* Program constants *)

MsPerSecond == 1000           \* utils.ts:1901, part_000:135
DayMs == 86400000             \* part_000:96
TwoDaysMs == 172800000        \* part_000:123

Ticks(ms) == ms \div TickMs

-----------------------------------------------------------------------------
(* Text *)

Str_Water == <<"W","a","t","e","r">>
Str_WaterLeakage == <<"W","a","t","e","r"," ","L","e","a","k","a","g","e">>
Str_WaterInfrastructure ==
    <<"W","a","t","e","r"," ","I","n","f","r","a","s","t","r","u","c","t","u","r","e">>
Str_Sanitation == <<"S","a","n","i","t","a","t","i","o","n">>
Str_PublicLighting == <<"P","u","b","l","i","c"," ","L","i","g","h","t","i","n","g">>
Str_RoadMaintenance == <<"R","o","a","d"," ","M","a","i","n","t","e","n","a","n","c","e">>
Str_DrainageSystems == <<"D","r","a","i","n","a","g","e"," ","S","y","s","t","e","m","s">>

\* Prisma's { contains: s } filter: s occurs in text as a contiguous run.
Contains(text, s) ==
    \E i \in 1..(Len(text) - Len(s) + 1) : SubSeq(text, i, i + Len(s) - 1) = s

\* What a database may take for equal when it compares text: binary tells
\* letter case apart, nocase does not
Collations == {"binary", "nocase"}

UpperCase ==
    <<"A","B","C","D","E","F","G","H","I","J","K","L","M",
      "N","O","P","Q","R","S","T","U","V","W","X","Y","Z">>
LowerCase ==
    <<"a","b","c","d","e","f","g","h","i","j","k","l","m",
      "n","o","p","q","r","s","t","u","v","w","x","y","z">>

FoldChar(ch) ==
    IF \E k \in 1..Len(UpperCase) : UpperCase[k] = ch
    THEN LowerCase[CHOOSE k \in 1..Len(UpperCase) : UpperCase[k] = ch]
    ELSE ch

Fold(text) == [k \in 1..Len(text) |-> FoldChar(text[k])]

\* The text as the comparison of collation c sees it
Collate(c, text) == IF c = "nocase" THEN Fold(text) ELSE text

-----------------------------------------------------------------------------
(* Optional values: <<>> is null, <<v>> holds v *)

Null == <<>>
Some(v) == <<v>>
IsSet(o) == o # <<>>
Val(o) == o[1]

-----------------------------------------------------------------------------
(* Fractions *)

RECURSIVE Gcd(_, _)
Gcd(a, b) == IF b = 0 THEN a ELSE Gcd(b, a % b)

Abs(x) == IF x < 0 THEN -x ELSE x

Frac(n, d) ==
    LET g == Gcd(Abs(n), d) IN <<n \div g, d \div g>>

Zero == <<0, 1>>

-----------------------------------------------------------------------------
(* Storage queries *)

Ids(table) == 1..Len(table)

RECURSIVE SumScores(_, _)
SumScores(ps, S) ==
    IF S = {} THEN 0
    ELSE LET i == CHOOSE x \in S : TRUE
         IN ps[i].sentiment_score + SumScores(ps, S \ {i})

\* A faulty count: taken over every report, the where clause dropped
CountProblems_All(ps, c) == Len(ps)

\* prisma.problem.count({ where: { cluster_id } })
ProblemsOf(ps, c) == {i \in Ids(ps) : ps[i].cluster_id = c}
CountProblems(ps, c) == Cardinality(ProblemsOf(ps, c))

\* prisma.problem.aggregate({ where: { cluster_id }, _avg: { sentiment_score } }):
\* null when no row matches
AggregateAvg(ps, c) ==
    LET S == ProblemsOf(ps, c)
    IN IF S = {} THEN Null ELSE Some(Frac(SumScores(ps, S), Cardinality(S)))

\* avg._avg.sentiment_score || 0 : null and 0 both give 0
OrZero(avg) == IF ~IsSet(avg) \/ Val(avg)[1] = 0 THEN Zero ELSE Val(avg)

\* prisma.problem.aggregate({ _avg: { sentiment_score: true } }) over every
\* report, then || 0
MeanOfAll(ps) ==
    IF ps = <<>> THEN Zero ELSE Frac(SumScores(ps, Ids(ps)), Len(ps))

\* prisma.cluster.findFirst({ where: { cluster_name: { contains: s } } }):
\* the rows that qualify; no orderBy says which of them comes first
ContainsMatches(cs, s) == {i \in Ids(cs) : Contains(cs[i].cluster_name, s)}

\* A faulty lookup: the whole name must equal the suggestion
ResolveOutcomes_Exact(cs, s) ==
    IF \A i \in Ids(cs) : cs[i].cluster_name # s THEN {0}
    ELSE {i \in Ids(cs) : cs[i].cluster_name = s}

\* What the lookup may return: 0 (null) when no row qualifies, else any
\* qualifying row
ResolveOutcomes(cs, s) ==
    IF ContainsMatches(cs, s) = {} THEN {0} ELSE ContainsMatches(cs, s)

\* The cluster table as the comparison of collation c sees its names
CollatedNames(c, cs) ==
    [i \in Ids(cs) |-> [cs[i] EXCEPT !.cluster_name = Collate(c, @)]]

\* prisma.cluster.findFirst({ where: { cluster_name: name } })
ExactMatches(cs, name) == {i \in Ids(cs) : cs[i].cluster_name = name}

\* prisma.cluster.create({ data: { cluster_name, area } }): the statistics
\* columns take their defaults
NewCluster(name, area) ==
    [cluster_name |-> name, area |-> area, problem_count |-> 0, avg_sentiment |-> Zero]

\* A faulty update: the count kept by incrementing the stored value
UpdateStats_Incremental(cs, c, cnt, avg) ==
    [cs EXCEPT ![c].problem_count = @ + 1, ![c].avg_sentiment = avg]

\* prisma.cluster.update({ where: { id }, data: { problem_count, avg_sentiment } })
UpdateStats(cs, c, cnt, avg) ==
    [cs EXCEPT ![c].problem_count = cnt, ![c].avg_sentiment = avg]

\* The statistics refresh run with no storage call of another request in between
Refresh(cs, ps, c) ==
    UpdateStats(cs, c, CountProblems(ps, c), OrZero(AggregateAvg(ps, c)))

\* Math.floor((resolved_at.getTime() - created_at.getTime()) / 1000)
TimeTaken(created, resolved) == ((resolved - created) * TickMs) \div MsPerSecond

\* The cluster's stored statistics are those its reports give: the number of
\* reports whose cluster_id is c, and their mean score (0 when there are none)
Members(ps, c) == {i \in Ids(ps) : ps[i].cluster_id = c}
MeanOf(ps, S) == IF S = {} THEN Zero ELSE Frac(SumScores(ps, S), Cardinality(S))
Consistent(cs, ps, c) ==
    /\ cs[c].problem_count = Cardinality(Members(ps, c))
    /\ cs[c].avg_sentiment = MeanOf(ps, Members(ps, c))


-----------------------------------------------------------------------------
(* The seed script, src/unnamed/part_000 *)

MunicipalEmail == "municipal@admin.com"
CitizenEmail == "citizen@admin.com"

\* prisma.user.upsert({ where: { email }, update: {}, create: {...} })
UpsertUser(us, email, role) ==
    IF \E i \in Ids(us) : us[i].email = email
    THEN us
    ELSE Append(us, [email |-> email, role |-> role])

UserId(us, email) == CHOOSE i \in Ids(us) : us[i].email = email

SeedUsers(us) ==
    UpsertUser(UpsertUser(us, MunicipalEmail, "municipal_admin"),
               CitizenEmail, "citizen_admin")

SeedClusters ==
    << [name |-> Str_WaterInfrastructure, area |-> "Kottapeta"],
       [name |-> Str_Sanitation,          area |-> "Main Road"],
       [name |-> Str_PublicLighting,      area |-> "Market Area"],
       [name |-> Str_RoadMaintenance,     area |-> "Bus Stand"],
       [name |-> Str_DrainageSystems,     area |-> "Colony Area"] >>

\* resolvedAgo: the milliseconds resolved_at lies before Date.now(), <<>> if unset
SeedProblems ==
    << [title |-> "Water Leakage", category |-> "Water", location |-> "Kottapeta",
        status |-> "Pending", sentiment_score |-> -8, is_urgent |-> TRUE,
        cluster |-> 1, resolvedAgo |-> Null],
       [title |-> "Garbage Overflow", category |-> "Garbage", location |-> "Main Road",
        status |-> "In Progress", sentiment_score |-> -6, is_urgent |-> FALSE,
        cluster |-> 2, resolvedAgo |-> Null],
       [title |-> "Street Light Not Working", category |-> "Electricity",
        location |-> "Market Area", status |-> "Resolved", sentiment_score |-> -4,
        is_urgent |-> FALSE, cluster |-> 3, resolvedAgo |-> Some(DayMs)],
       [title |-> "Road Damage", category |-> "Roads", location |-> "Bus Stand",
        status |-> "Pending", sentiment_score |-> -7, is_urgent |-> TRUE,
        cluster |-> 4, resolvedAgo |-> Null],
       [title |-> "Drainage Blockage", category |-> "Other", location |-> "Colony Area",
        status |-> "Resolved", sentiment_score |-> -9, is_urgent |-> TRUE,
        cluster |-> 5, resolvedAgo |-> Some(TwoDaysMs)] >>

\* for (const c of clusters): findFirst by name, create when there is none
RECURSIVE SeedClusterLoop(_, _)
SeedClusterLoop(cs, k) ==
    IF k > Len(SeedClusters) THEN cs
    ELSE LET c == SeedClusters[k]
         IN SeedClusterLoop(
                IF ExactMatches(cs, c.name) = {}
                THEN Append(cs, NewCluster(c.name, c.area))
                ELSE cs,
                k + 1)

\* clusterMap[c.name] = existing.id, for every row the lookup may have returned
RECURSIVE ClusterMaps(_, _)
ClusterMaps(cs, k) ==
    IF k = 0 THEN {<<>>}
    ELSE {Append(m, c) : m \in ClusterMaps(cs, k - 1),
                         c \in ExactMatches(cs, SeedClusters[k].name)}

\* prisma.problem.create({ data: { ...p, id } }): created_at is the time of
\* the insert, resolved_at the Date the script computed
SeedProblemRow(p, clusterMap, citizen, t) ==
    [user_id |-> citizen, title |-> p.title, category |-> p.category,
     location |-> p.location, status |-> p.status,
     sentiment_score |-> p.sentiment_score, is_urgent |-> p.is_urgent,
     cluster_id |-> clusterMap[p.cluster], created_at |-> t,
     resolved_at |-> IF IsSet(p.resolvedAgo)
                     THEN Some(t - Ticks(Val(p.resolvedAgo)))
                     ELSE Null]

SeedCommentRow(pid, row, citizen) ==
    [problem_id |-> pid, citizen_id |-> citizen, rating |-> "Good",
     time_taken |-> TimeTaken(row.created_at, Val(row.resolved_at))]

\* for (const p of problemsData): findFirst by title and location, create when
\* there is none, with its feedback when it is Resolved
RECURSIVE SeedProblemLoop(_, _, _, _, _, _)
SeedProblemLoop(ps, cms, k, clusterMap, citizen, t) ==
    IF k > Len(SeedProblems) THEN [problems |-> ps, comments |-> cms]
    ELSE LET p == SeedProblems[k]
             exists == \E i \in Ids(ps) :
                          ps[i].title = p.title /\ ps[i].location = p.location
             row == SeedProblemRow(p, clusterMap, citizen, t)
         IN IF exists
            THEN SeedProblemLoop(ps, cms, k + 1, clusterMap, citizen, t)
            ELSE SeedProblemLoop(
                     Append(ps, row),
                     IF p.status = "Resolved"
                     THEN Append(cms, SeedCommentRow(Len(ps) + 1, row, citizen))
                     ELSE cms,
                     k + 1, clusterMap, citizen, t)

-----------------------------------------------------------------------------
(* Dates: the server's local calendar and the ISO date of an instant *)

SecondsPerHour == 3600        \* utils.ts:1772
TrendDays == 30               \* utils.ts:1720, 1731
TopGroups == 5                \* utils.ts:1998, 2005

HourTicks == Ticks(SecondsPerHour * MsPerSecond)
DayTicks == Ticks(DayMs)

\* The time zone of the server process: local time is UTC + before up to the
\* instant change, UTC + after from then on
Utc == [before |-> 0, after |-> 0, change |-> 0]
\* a zone that leaves summer time on day 30 at 01:00 UTC (03:00 local becomes
\* 02:00), as the zones of central Europe do
SummerTimeEnds ==
    [before |-> 2 * HourTicks, after |-> HourTicks,
     change |-> 30 * DayTicks + HourTicks]
\* a zone that enters summer time on day 30 at 01:00 UTC
SummerTimeBegins ==
    [before |-> HourTicks, after |-> 2 * HourTicks,
     change |-> 30 * DayTicks + HourTicks]

OffsetAt(z, t) == IF t < z.change THEN z.before ELSE z.after
\* the local wall time of an instant, what getDate() and setDate() work on
LocalOf(z, t) == t + OffsetAt(z, t)
\* the instant of a local wall time; a wall time the change makes ambiguous or
\* skips is read with the offset in force before the change
InstantOf(z, local) ==
    IF local - z.before < z.change THEN local - z.before ELSE local - z.after

\* d = new Date(); d.setDate(d.getDate() - i): the same local time of day,
\* i local calendar days earlier
SetDateBack(z, t, i) == InstantOf(z, LocalOf(z, t) - i * DayTicks)

\* d.toISOString().split('T')[0]: the UTC calendar date, as a day number
IsoDate(t) == t \div DayTicks

\* .sort((a, b) => a.date.localeCompare(b.date)) over distinct dates
RECURSIVE Ascending(_)
Ascending(S) ==
    IF S = {} THEN <<>>
    ELSE LET m == CHOOSE x \in S : \A y \in S : x <= y
         IN <<m>> \o Ascending(S \ {m})

-----------------------------------------------------------------------------
(* GET /api/stats *)

IsMunicipal(u) == users[u].role = "municipal_admin"

\* ...(isMunicipal ? {} : { user_id: userId })
InScope(ps, u) == {i \in Ids(ps) : IsMunicipal(u) \/ ps[i].user_id = u}

\* A faulty filter: only the reports nobody has started on
Unresolved_Pending(ps, S) == {i \in S : ps[i].status = "Pending"}

\* status: { not: 'Resolved' } and p.status !== 'Resolved'
Unresolved(ps, S) == {i \in S : ps[i].status # "Resolved"}

\* for (let i = 0; i < 30; i++) { trendMap[dateStr] = { active: 0, resolved: 0 } }
TrendDates(z, t) == {IsoDate(SetDateBack(z, t, i)) : i \in 0..(TrendDays - 1)}

\* findMany({ where: { created_at: { gte: thirtyDaysAgo }, ... } })
RecentProblems(z, t, ps, u) ==
    {i \in InScope(ps, u) : ps[i].created_at >= SetDateBack(z, t, TrendDays)}

\* problems.forEach(p => {...}): a key that is not in trendMap is skipped
TrendMap(z, t, ps, u) ==
    LET R == RecentProblems(z, t, ps, u)
    IN [d \in TrendDates(z, t) |->
          [active |-> Cardinality({i \in Unresolved(ps, R) :
                                      IsoDate(ps[i].created_at) = d}),
           resolved |-> Cardinality({i \in R :
                                      /\ IsSet(ps[i].resolved_at)
                                      /\ IsoDate(Val(ps[i].resolved_at)) = d})]]

Trends(z, t, ps, u) ==
    LET m == TrendMap(z, t, ps, u)
        ds == Ascending(DOMAIN m)
    IN [k \in 1..Len(ds) |->
          [date |-> ds[k], active |-> m[ds[k]].active, resolved |-> m[ds[k]].resolved]]

RECURSIVE SumTimes(_, _)
SumTimes(cms, S) ==
    IF S = {} THEN 0
    ELSE LET i == CHOOSE x \in S : TRUE
         IN cms[i].time_taken + SumTimes(cms, S \ {i})

\* A faulty grouping: one entry for each category that has a report, its
\* count the number of those reports
ResolutionTimesMap_ByReports(cms, ps) ==
    [cat \in {ps[i].category : i \in Ids(ps)} |->
        LET S == {i \in Ids(cms) : ps[cms[i].problem_id].category = cat}
        IN [total |-> SumTimes(cms, S),
            count |-> Cardinality({i \in Ids(ps) : ps[i].category = cat})]]

\* resolutionTimesRaw.forEach(c => {...}): an entry is made when the first
\* feedback of a category is met; total and count run over its feedback
ResolutionTimesMap(cms, ps) ==
    [cat \in {ps[cms[i].problem_id].category : i \in Ids(cms)} |->
        LET S == {i \in Ids(cms) : ps[cms[i].problem_id].category = cat}
        IN [total |-> SumTimes(cms, S), count |-> Cardinality(S)]]

\* Math.round(n / d) for d > 0: halves go up
RoundHalfUp(n, d) == (2 * n + d) \div (2 * d)

\* avg_time: Math.round((data.total / data.count) / 3600) // in hours
StatsAvgTime(e) == Frac(RoundHalfUp(e.total, e.count * SecondsPerHour), 1)

StatsResponse(z, t, cs, ps, cms, u) ==
    LET S == InScope(ps, u)
        m == ResolutionTimesMap(cms, ps)
    IN [totalProblems |-> Cardinality(S),
        activeProblems |-> Cardinality(Unresolved(ps, S)),
        resolvedProblems |-> Cardinality(S \ Unresolved(ps, S)),
        urgentAlerts |-> Cardinality({i \in Unresolved(ps, S) : ps[i].is_urgent}),
        avgSentiment |-> MeanOfAll(ps),
        activeClusters |-> Len(cs),
        trends |-> Trends(z, t, ps, u),
        resolutionTimes |-> [cat \in DOMAIN m |-> StatsAvgTime(m[cat])]]

-----------------------------------------------------------------------------
(* GET /api/reports/strategic *)

\* groupBy with orderBy on an aggregate says nothing about groups whose
\* aggregates are equal; storage may return them in the order of their first
\* rows or in the reverse of it
TieOrders == {"rowAsc", "rowDesc"}
TieBefore(tie, i, j) == IF tie = "rowAsc" THEN i < j ELSE i > j

FirstRow(S) == CHOOSE x \in S : \A y \in S : x <= y

\* the sequence of S along the strict total order before
RECURSIVE InOrder(_, _)
InOrder(S, before) ==
    IF S = {} THEN <<>>
    ELSE LET m == CHOOSE x \in S : \A y \in S \ {x} : <<x, y>> \in before
         IN <<m>> \o InOrder(S \ {m}, before)

\* take: 5
Take(seq, n) == SubSeq(seq, 1, IF Len(seq) < n THEN Len(seq) ELSE n)

FracLess(a, b) == a[1] * b[2] < b[1] * a[2]

\* prisma.problem.groupBy({ by: ['category'], _count: { _all: true },
\* orderBy: { _count: { category: 'desc' } }, take: 5 }), then
\* commonIssues.map(i => ({ category, count }))
CommonIssues(ps, tie) ==
    LET cats == {ps[i].category : i \in Ids(ps)}
        rows(c) == {i \in Ids(ps) : ps[i].category = c}
        n(c) == Cardinality(rows(c))
        before == {pair \in cats \X cats :
                     \/ n(pair[1]) > n(pair[2])
                     \/ /\ n(pair[1]) = n(pair[2])
                        /\ TieBefore(tie, FirstRow(rows(pair[1])), FirstRow(rows(pair[2])))}
        order == InOrder(cats, before)
    IN Take([k \in 1..Len(order) |-> [category |-> order[k], count |-> n(order[k])]],
            TopGroups)

\* prisma.problem.groupBy({ by: ['location'], _avg: { sentiment_score: true },
\* orderBy: { _avg: { sentiment_score: 'asc' } }, take: 5 }), then
\* negativeSentimentAreas.map(a => ({ location, avg }))
NegativeSentimentAreas(ps, tie) ==
    LET locs == {ps[i].location : i \in Ids(ps)}
        rows(l) == {i \in Ids(ps) : ps[i].location = l}
        avg(l) == Frac(SumScores(ps, rows(l)), Cardinality(rows(l)))
        before == {pair \in locs \X locs :
                     \/ FracLess(avg(pair[1]), avg(pair[2]))
                     \/ /\ avg(pair[1]) = avg(pair[2])
                        /\ TieBefore(tie, FirstRow(rows(pair[1])), FirstRow(rows(pair[2])))}
        order == InOrder(locs, before)
    IN Take([k \in 1..Len(order) |-> [location |-> order[k], avg |-> avg(order[k])]],
            TopGroups)

\* avg_time: data.total / data.count
StrategicAvgTime(e) == Frac(e.total, e.count)

StrategicTimes(cms, ps) ==
    LET m == ResolutionTimesMap(cms, ps)
    IN [cat \in DOMAIN m |-> StrategicAvgTime(m[cat])]

\* What the narrative oracle does with a call: it writes a text, answers with
\* no text, fails, or never answers
NarrativeOutcomes == {"text", "empty", "throws", "silent"}

Placeholder == "Strategic insights are being generated based on real-time data."
NarrativeText == "1. The most critical issue ..."

\* aiSummary = response.text || aiSummary; the catch block only logs
AiSummary(outcome) == IF outcome = "text" THEN NarrativeText ELSE Placeholder

\* A faulty handler: the oracle's failure is passed on as the request's
ReportResponse_Propagates(issues, areas, times, outcome) ==
    IF outcome = "throws"
    THEN [status |-> 500, commonIssues |-> <<>>, negativeSentimentAreas |-> <<>>,
          resolutionTimes |-> <<>>, aiSummary |-> ""]
    ELSE [status |-> 200, commonIssues |-> issues, negativeSentimentAreas |-> areas,
          resolutionTimes |-> times, aiSummary |-> AiSummary(outcome)]

\* res.json({ commonIssues, negativeSentimentAreas, resolutionTimes, aiSummary })
ReportResponse(issues, areas, times, outcome) ==
    [status |-> 200, commonIssues |-> issues, negativeSentimentAreas |-> areas,
     resolutionTimes |-> times, aiSummary |-> AiSummary(outcome)]

-----------------------------------------------------------------------------
(* analyzeProblemAI and POST /api/ai/analyze *)

Str_General == <<"G","e","n","e","r","a","l">>
Str_GeneralServices ==
    <<"G","e","n","e","r","a","l"," ","S","e","r","v","i","c","e","s">>

RequiredFields == {"sentiment_label", "sentiment_score", "priority_score",
                   "is_urgent", "category", "cluster_suggestion"}

\* A faulty fallback: a failed analysis raised as urgent
Fallback_Urgent ==
    [sentiment_label |-> "Neutral", sentiment_score |-> 0, priority_score |-> 10,
     is_urgent |-> TRUE, category |-> "Other", cluster_suggestion |-> Str_General]

\* the object of the catch block
Fallback ==
    [sentiment_label |-> "Neutral", sentiment_score |-> 0, priority_score |-> 5,
     is_urgent |-> FALSE, category |-> "Other", cluster_suggestion |-> Str_General]

\* What the classification oracle does with a call: it answers with a JSON
\* object that has the six fields, with a JSON object that lacks some, with no
\* text, with text that is not JSON, it fails, or it never answers
ClassifyOutcomes == {"valid", "partial", "empty", "garbage", "throws", "silent"}

ValidAnalysis ==
    [sentiment_label |-> "Negative", sentiment_score |-> -5, priority_score |-> 7,
     is_urgent |-> TRUE, category |-> "Water", cluster_suggestion |-> Str_Water]
PartialAnalysis == [sentiment_label |-> "Negative"]
EmptyObject == [f \in {} |-> f]

\* response.text: <<>> when there is none, else whether it parses and to what
OracleText(outcome) ==
    CASE outcome = "valid" -> Some([json |-> TRUE, value |-> ValidAnalysis])
      [] outcome = "partial" -> Some([json |-> TRUE, value |-> PartialAnalysis])
      [] outcome = "garbage" -> Some([json |-> FALSE, value |-> EmptyObject])
      [] OTHER -> Null

\* try { ...; return JSON.parse(response.text || "{}") } catch { return {...} }
AnalyzeProblemAI(outcome) ==
    IF outcome = "throws" THEN Fallback
    ELSE LET text == IF IsSet(OracleText(outcome))
                     THEN Val(OracleText(outcome))
                     ELSE [json |-> TRUE, value |-> EmptyObject]
         IN IF text.json THEN text.value ELSE Fallback

\* the fields of a parsed object
FieldsOf(obj) == DOMAIN obj

\* No analytics or oracle request in flight, nothing held by the client
IdleView(z) ==
    [tz |-> z, collation |-> "binary", kind |-> "none", pc |-> "idle",
     user |-> 0, oracle |-> "",
     issues |-> <<>>, areas |-> <<>>, times |-> <<>>, timesMap |-> <<>>,
     stats |-> Null, statsFor |-> 0, report |-> Null, analysis |-> Null, posted |-> FALSE]

-----------------------------------------------------------------------------
(* Requests *)

Slots == 1..MaxInFlight

IdleReq ==
    [kind |-> "none", pc |-> "idle", user |-> 0, sugg |-> <<>>, location |-> "",
     category |-> "", score |-> 0, label |-> "", priority |-> 0, urgent |-> FALSE,
     target |-> 0, status |-> "", rating |-> "",
     cluster |-> 0, problem |-> 0, cnt |-> 0, avg |-> Zero, timeTaken |-> 0,
     madeCluster |-> FALSE, madeProblem |-> FALSE, madeComment |-> FALSE,
     alone |-> FALSE, wasStale |-> FALSE,
     undisturbed |-> FALSE, followsFresh |-> FALSE]

Responded == {"ok", "rejected", "error"}
InFlight(r) == req[r].pc \notin ({"idle"} \cup Responded)
Quiet == \A r \in Slots : req[r].pc = "idle"
\* A response is delivered before the next step of any request
Delivered == \A r \in Slots : req[r].pc \notin Responded

Init ==
    /\ users = <<>>
    /\ clusters = <<>>
    /\ problems = <<>>
    /\ comments = <<>>
    /\ now = 0
    /\ seed = [pc |-> "idle", runs |-> 0, todo |-> <<>>]
    /\ req = [r \in Slots |-> IdleReq]
    /\ budget = MaxEvents
    /\ failed = FALSE
    /\ fresh = {}
    /\ view = IdleView(Utc)

\* main(), steps 1 to 3: users, clusters, problems and their feedback; then
\* allClusters = findMany() opens the sweep
SeedData ==
    /\ seed.pc = "idle"
    /\ Quiet
    /\ seed.runs > 0 => budget > 0
    /\ LET us == SeedUsers(users)
           cs == SeedClusterLoop(clusters, 1)
           citizen == UserId(us, CitizenEmail)
       IN \E clusterMap \in ClusterMaps(cs, Len(SeedClusters)) :
            /\ LET out == SeedProblemLoop(problems, comments, 1, clusterMap, citizen, now)
                   written == {out.problems[i].cluster_id :
                                  i \in (Len(problems) + 1)..Len(out.problems)}
               IN /\ users' = us
                  /\ clusters' = cs
                  /\ problems' = out.problems
                  /\ comments' = out.comments
                  /\ fresh' = fresh \ written
                  /\ seed' = [pc |-> "sweep", runs |-> seed.runs + 1,
                              todo |-> [i \in Ids(cs) |-> i]]
    /\ budget' = IF seed.runs > 0 THEN budget - 1 ELSE budget
    /\ UNCHANGED <<view, now, req, failed>>

\* for (const c of allClusters): count, aggregate, update
SeedRefresh ==
    /\ seed.pc = "sweep"
    /\ seed.todo # <<>>
    /\ LET c == Head(seed.todo)
       IN /\ clusters' = Refresh(clusters, problems, c)
          /\ fresh' = fresh \cup {c}
          /\ seed' = [seed EXCEPT !.todo = Tail(seed.todo)]
    /\ UNCHANGED <<view, users, problems, comments, now, req, budget, failed>>

\* console.log('Seed data created successfully'); prisma.$disconnect()
SeedExit ==
    /\ seed.pc = "sweep"
    /\ seed.todo = <<>>
    /\ seed' = [seed EXCEPT !.pc = "idle"]
    /\ UNCHANGED <<view, users, clusters, problems, comments, now, req, budget, failed, fresh>>

Seeded == seed.pc = "idle" /\ seed.runs > 0

-----------------------------------------------------------------------------
(* What requests carry *)

InSuggestions == {Str_WaterLeakage, Str_Water}
InLocations == {"Kottapeta"}
InCategories == {"Water"}
InScores == {-5, 3}
InStatuses == {"Pending", "In Progress", "Resolved"}
InRatings == {"Good"}
\* the reports requests address: the seeded In Progress and Resolved ones and
\* the first submitted one (no report has this id until it is created)
InTargets == {2, 3, Len(SeedProblems) + 1}
\* who registers: one more citizen
InEmails == {"resident@example.com"}
InRoles == {"citizen_admin"}
ClockSteps == {1, Ticks(DayMs)}

\* Requests take the lowest free slot
FreeSlot(r) ==
    /\ Delivered
    /\ req[r].pc = "idle"
    /\ \A q \in Slots : q < r => req[q].pc # "idle"

\* authenticate, authorize(roles)
Authorized(u, role) == u \in Ids(users) /\ users[u].role = role

Submitting(q) == req[q].kind = "submit" /\ InFlight(q)

-----------------------------------------------------------------------------
(* POST /api/auth/register *)

\* await prisma.user.create({ data: { name, email, password, role } }): the
\* handler's P2002 branch shows the e-mail column is unique, so an e-mail
\* already taken is answered 400 and writes nothing
Register(email, role) ==
    /\ Seeded
    /\ Delivered
    /\ budget > 0
    /\ budget' = budget - 1
    /\ users' = IF \E i \in Ids(users) : users[i].email = email
                THEN users
                ELSE Append(users, [email |-> email, role |-> role])
    /\ UNCHANGED <<view, clusters, problems, comments, now, seed, req, failed, fresh>>

-----------------------------------------------------------------------------
(* POST /api/problems *)

SubmitStart(r, u, sugg, loc, cat, score) ==
    /\ Seeded
    /\ FreeSlot(r)
    /\ Authorized(u, "citizen_admin")
    /\ budget > 0
    /\ budget' = budget - 1
    /\ req' = [q \in Slots |->
                 IF q = r
                 THEN [IdleReq EXCEPT !.kind = "submit", !.pc = "findFirst",
                                      !.user = u, !.sugg = sugg, !.location = loc,
                                      !.category = cat, !.score = score,
                                      !.label = IF score < 0 THEN "Negative"
                                                ELSE "Positive",
                                      !.priority = 5,
                                      !.alone = \A o \in Slots : ~Submitting(o)]
                 ELSE IF Submitting(q) THEN [req[q] EXCEPT !.alone = FALSE]
                 ELSE req[q]]
    /\ UNCHANGED <<view, users, clusters, problems, comments, now, seed, failed, fresh>>

\* let cluster = await prisma.cluster.findFirst({ where: { cluster_name:
\* { contains: analysis.cluster_suggestion } } })
FindFirst(r) ==
    /\ req[r].pc = "findFirst"
    /\ Delivered
    /\ \E c \in ResolveOutcomes(CollatedNames(view.collation, clusters),
                               Collate(view.collation, req[r].sugg)) :
         IF c = 0
         THEN req' = [req EXCEPT ![r].pc = "createCluster"]
         ELSE req' = [req EXCEPT ![r].pc = "createProblem",
                                 ![r].cluster = c,
                                 ![r].wasStale = ~Consistent(clusters, problems, c)]
    /\ UNCHANGED <<view, users, clusters, problems, comments, now, seed, budget, failed, fresh>>

\* if (!cluster) cluster = await prisma.cluster.create({ data: { cluster_name:
\* analysis.cluster_suggestion, area: location } })
CreateCluster(r) ==
    /\ req[r].pc = "createCluster"
    /\ Delivered
    /\ clusters' = Append(clusters, NewCluster(req[r].sugg, req[r].location))
    /\ req' = [req EXCEPT ![r].pc = "createProblem",
                          ![r].cluster = Len(clusters) + 1,
                          ![r].madeCluster = TRUE]
    /\ UNCHANGED <<view, users, problems, comments, now, seed, budget, failed, fresh>>

\* prisma.problem.create({ data: {...} }): status and created_at take their
\* defaults, resolved_at stays null
NewProblem(q, t) ==
    [user_id |-> q.user, title |-> "Report", category |-> q.category,
     location |-> q.location, status |-> "Pending",
     sentiment_score |-> q.score, sentiment_label |-> q.label,
     priority_score |-> q.priority, is_urgent |-> q.urgent,
     cluster_id |-> q.cluster, created_at |-> t, resolved_at |-> Null]

CreateProblem(r) ==
    /\ req[r].pc = "createProblem"
    /\ Delivered
    /\ problems' = Append(problems, NewProblem(req[r], now))
    /\ fresh' = fresh \ {req[r].cluster}
    /\ req' = [q \in Slots |->
                 IF q = r
                 THEN [req[q] EXCEPT !.pc = "count", !.problem = Len(problems) + 1,
                                     !.madeProblem = TRUE]
                 ELSE IF Submitting(q) /\ req[q].cluster = req[r].cluster
                      THEN [req[q] EXCEPT !.undisturbed = FALSE]
                      ELSE req[q]]
    /\ UNCHANGED <<view, users, clusters, comments, now, seed, budget, failed>>

\* const problemCount = await prisma.problem.count({ where: { cluster_id } })
Count(r) ==
    /\ req[r].pc = "count"
    /\ Delivered
    /\ req' = [req EXCEPT ![r].pc = "aggregate",
                          ![r].cnt = CountProblems(problems, req[r].cluster),
                          ![r].undisturbed = TRUE,
                          ![r].followsFresh = req[r].cluster \in fresh]
    /\ UNCHANGED <<view, users, clusters, problems, comments, now, seed, budget, failed, fresh>>

\* const avgSentiment = await prisma.problem.aggregate({...})
Aggregate(r) ==
    /\ req[r].pc = "aggregate"
    /\ Delivered
    /\ req' = [req EXCEPT ![r].pc = "update",
                          ![r].avg = OrZero(AggregateAvg(problems, req[r].cluster))]
    /\ UNCHANGED <<view, users, clusters, problems, comments, now, seed, budget, failed, fresh>>

\* await prisma.cluster.update({...}); res.json({ id, ...analysis })
Update(r) ==
    /\ req[r].pc = "update"
    /\ Delivered
    /\ clusters' = UpdateStats(clusters, req[r].cluster, req[r].cnt, req[r].avg)
    /\ fresh' = IF req[r].undisturbed
                THEN fresh \cup {req[r].cluster}
                ELSE fresh \ {req[r].cluster}
    /\ req' = [req EXCEPT ![r].pc = "ok"]
    /\ UNCHANGED <<view, users, problems, comments, now, seed, budget, failed>>

-----------------------------------------------------------------------------
(* PATCH /api/problems/:id/status *)

StatusStart(r, u, id, status) ==
    /\ Seeded
    /\ FreeSlot(r)
    /\ Authorized(u, "municipal_admin")
    /\ budget > 0
    /\ budget' = budget - 1
    /\ req' = [req EXCEPT ![r] = [IdleReq EXCEPT !.kind = "status",
                                                 !.pc = "updateStatus", !.user = u,
                                                 !.target = id, !.status = status]]
    /\ UNCHANGED <<view, users, clusters, problems, comments, now, seed, failed, fresh>>

\* A faulty patch that also stamps the row's creation time.
Patched_Stamps(p, status, t) ==
    IF status = "Resolved"
    THEN [p EXCEPT !.status = status, !.resolved_at = Some(t), !.created_at = t]
    ELSE [p EXCEPT !.status = status, !.created_at = t]

\* data: status === 'Resolved' ? { status, resolved_at: new Date() } : { status }
Patched(p, status, t) ==
    IF status = "Resolved"
    THEN [p EXCEPT !.status = status, !.resolved_at = Some(t)]
    ELSE [p EXCEPT !.status = status]

\* await prisma.problem.update({ where: { id }, data }): throws when no row
\* has the id
UpdateStatus(r) ==
    /\ req[r].pc = "updateStatus"
    /\ Delivered
    /\ IF req[r].target \in Ids(problems)
       THEN /\ problems' = [problems EXCEPT
                              ![req[r].target] = Patched(@, req[r].status, now)]
            /\ req' = [req EXCEPT ![r].pc = "ok"]
       ELSE /\ req' = [req EXCEPT ![r].pc = "error"]
            /\ UNCHANGED problems
    /\ UNCHANGED <<view, users, clusters, comments, now, seed, budget, failed, fresh>>

-----------------------------------------------------------------------------
(* POST /api/problems/:id/comment *)

CommentStart(r, u, id, rating) ==
    /\ Seeded
    /\ FreeSlot(r)
    /\ Authorized(u, "citizen_admin")
    /\ budget > 0
    /\ budget' = budget - 1
    /\ req' = [req EXCEPT ![r] = [IdleReq EXCEPT !.kind = "comment",
                                                 !.pc = "findUnique", !.user = u,
                                                 !.target = id, !.rating = rating]]
    /\ UNCHANGED <<view, users, clusters, problems, comments, now, seed, failed, fresh>>

\* const problem = await prisma.problem.findUnique({ where: { id } });
\* if (!problem || !problem.resolved_at) return res.status(400)...
FindUnique(r) ==
    /\ req[r].pc = "findUnique"
    /\ Delivered
    /\ IF req[r].target \in Ids(problems) /\ IsSet(problems[req[r].target].resolved_at)
       THEN LET p == problems[req[r].target]
            IN req' = [req EXCEPT ![r].pc = "createComment",
                                  ![r].timeTaken =
                                      TimeTaken(p.created_at, Val(p.resolved_at))]
       ELSE req' = [req EXCEPT ![r].pc = "rejected"]
    /\ UNCHANGED <<view, users, clusters, problems, comments, now, seed, budget, failed, fresh>>

NewComment(q) ==
    [problem_id |-> q.target, citizen_id |-> q.user, rating |-> q.rating,
     time_taken |-> q.timeTaken]

\* await prisma.resolvedComment.create({ data: {...} })
CreateComment(r) ==
    /\ req[r].pc = "createComment"
    /\ Delivered
    /\ comments' = Append(comments, NewComment(req[r]))
    /\ req' = [req EXCEPT ![r].pc = "ok", ![r].madeComment = TRUE]
    /\ UNCHANGED <<view, users, clusters, problems, now, seed, budget, failed, fresh>>

-----------------------------------------------------------------------------
(* Storage failures, responses, the clock *)

StorageSteps == {"findFirst", "createCluster", "createProblem", "count",
                 "aggregate", "update", "updateStatus", "findUnique",
                 "createComment"}

\* a storage call throws: catch (error) { res.status(500).json({ error }) }
StorageFails(r) ==
    /\ req[r].pc \in StorageSteps
    /\ Delivered
    /\ budget > 0
    /\ budget' = budget - 1
    /\ failed' = TRUE
    /\ req' = [req EXCEPT ![r].pc = "error"]
    /\ UNCHANGED <<view, users, clusters, problems, comments, now, seed, fresh>>

\* the response has been sent; the slot is free again
Return(r) ==
    /\ req[r].pc \in Responded
    /\ req' = [req EXCEPT ![r] = IdleReq]
    /\ UNCHANGED <<view, users, clusters, problems, comments, now, seed, budget, failed, fresh>>

Tick ==
    /\ budget > 0
    /\ Delivered
    /\ seed.pc = "idle"
    /\ \E d \in ClockSteps : now' = now + d
    /\ budget' = budget - 1
    /\ UNCHANGED <<view, users, clusters, problems, comments, seed, req, failed, fresh>>

-----------------------------------------------------------------------------

Next ==
    \/ SeedData
    \/ SeedRefresh
    \/ SeedExit
    \/ \E email \in InEmails, role \in InRoles : Register(email, role)
    \/ \E r \in Slots, u \in Ids(users), sugg \in InSuggestions, loc \in InLocations,
          cat \in InCategories, score \in InScores :
            SubmitStart(r, u, sugg, loc, cat, score)
    \/ \E r \in Slots : FindFirst(r)
    \/ \E r \in Slots : CreateCluster(r)
    \/ \E r \in Slots : CreateProblem(r)
    \/ \E r \in Slots : Count(r)
    \/ \E r \in Slots : Aggregate(r)
    \/ \E r \in Slots : Update(r)
    \/ \E r \in Slots, u \in Ids(users), id \in InTargets,
          status \in InStatuses : StatusStart(r, u, id, status)
    \/ \E r \in Slots : UpdateStatus(r)
    \/ \E r \in Slots, u \in Ids(users), id \in InTargets,
          rating \in InRatings : CommentStart(r, u, id, rating)
    \/ \E r \in Slots : FindUnique(r)
    \/ \E r \in Slots : CreateComment(r)
    \/ \E r \in Slots : StorageFails(r)
    \/ \E r \in Slots : Return(r)
    \/ Tick

Spec == Init /\ [][Next]_vars

-----------------------------------------------------------------------------
(* The analytics routes and the oracle, over a database the routes above
   have filled. One client at a time: a request is sent when the one before
   it has been answered. *)

RECURSIVE RefreshAll(_, _, _)
RefreshAll(cs, ps, k) ==
    IF k > Len(cs) THEN cs ELSE RefreshAll(Refresh(cs, ps, k), ps, k + 1)

\* The database after main() of the seed script has run at instant t
SeededDb(t) ==
    LET us == SeedUsers(<<>>)
        cs == SeedClusterLoop(<<>>, 1)
        citizen == UserId(us, CitizenEmail)
        clusterMap == CHOOSE m \in ClusterMaps(cs, Len(SeedClusters)) : TRUE
        out == SeedProblemLoop(<<>>, <<>>, 1, clusterMap, citizen, t)
    IN [users |-> us, clusters |-> RefreshAll(cs, out.problems, 1),
        problems |-> out.problems, comments |-> out.comments]

\* The seeded database after some use: at instant t a citizen's report went
\* under the new cluster 'General Services'; two hours later the seeded In
\* Progress report was set Resolved and its reporter rated it
UsedDb(t0, t) ==
    LET db == SeededDb(t0)
        citizen == UserId(db.users, CitizenEmail)
        cs == Append(db.clusters, NewCluster(Str_GeneralServices, "Kottapeta"))
        row == NewProblem([IdleReq EXCEPT !.user = citizen, !.category = "Water",
                                          !.location = "Kottapeta", !.score = -5,
                                          !.label = "Negative", !.priority = 7,
                                          !.cluster = Len(cs)], t)
        ps == [Append(db.problems, row) EXCEPT
                  ![2] = Patched(@, "Resolved", t + 2 * HourTicks)]
        rated == NewComment([IdleReq EXCEPT
                    !.target = 2, !.user = citizen, !.rating = "Good",
                    !.timeTaken = TimeTaken(ps[2].created_at, Val(ps[2].resolved_at))])
    IN [users |-> db.users, clusters |-> Refresh(cs, ps, Len(cs)),
        problems |-> ps, comments |-> Append(db.comments, rated)]

\* The database seeded at instant t0 and left alone for weeks: since then a
\* resident has registered (and reported nothing), and at instant t the seeded
\* In Progress report was set Resolved
AgedDb(t0, t) ==
    LET db == SeededDb(t0)
    IN [db EXCEPT
          !.users = Append(@, [email |-> "resident@example.com",
                               role |-> "citizen_admin"]),
          !.problems = [@ EXCEPT ![2] = Patched(@, "Resolved", t)]]

SeededAt == 38 * DayTicks
AgedAt == 5 * DayTicks
Databases ==
    {SeededDb(SeededAt), UsedDb(SeededAt, SeededAt + DayTicks),
     AgedDb(AgedAt, SeededAt + 12 * HourTicks)}
\* half an hour after and half an hour before a UTC midnight
InClocks == {40 * DayTicks + HourTicks \div 2, 40 * DayTicks - HourTicks \div 2}
InZones == {Utc, SummerTimeEnds, SummerTimeBegins}

AnalyticsInit ==
    /\ \E db \in Databases :
         /\ users = db.users
         /\ clusters = db.clusters
         /\ problems = db.problems
         /\ comments = db.comments
    /\ now \in InClocks
    /\ seed = [pc |-> "idle", runs |-> 1, todo |-> <<>>]
    /\ req = [r \in Slots |-> IdleReq]
    /\ budget = MaxCalls
    /\ failed = FALSE
    /\ fresh = {}
    /\ \E z \in InZones : view = IdleView(z)

\* app.get("/api/stats", authenticate, ...): the reads as one snapshot
GetStats(u) ==
    /\ view.pc = "idle"
    /\ Quiet
    /\ budget > 0
    /\ budget' = budget - 1
    /\ view' = [view EXCEPT
                  !.timesMap = ResolutionTimesMap(comments, problems),
                  !.statsFor = u,
                  !.stats = Some(StatsResponse(view.tz, now, clusters, problems,
                                               comments, u))]
    /\ UNCHANGED <<users, clusters, problems, comments, now, seed, req, failed, fresh>>

\* app.get("/api/reports/strategic", authenticate, ...) up to
\* await ai.models.generateContent({...})
ReportStart(u, outcome, tie) ==
    /\ view.pc = "idle"
    /\ Quiet
    /\ budget > 0
    /\ budget' = budget - 1
    /\ view' = [view EXCEPT
                  !.kind = "report", !.pc = "oracle", !.oracle = outcome,
                  !.issues = CommonIssues(problems, tie),
                  !.areas = NegativeSentimentAreas(problems, tie),
                  !.timesMap = ResolutionTimesMap(comments, problems),
                  !.times = StrategicTimes(comments, problems)]
    /\ UNCHANGED <<users, clusters, problems, comments, now, seed, req, failed, fresh>>

\* the oracle call settles; res.json({...})
ReportRespond ==
    /\ view.kind = "report"
    /\ view.pc = "oracle"
    /\ view.oracle # "silent"
    /\ view' = [view EXCEPT
                  !.pc = "idle",
                  !.report = Some(ReportResponse(view.issues, view.areas, view.times,
                                                 view.oracle))]
    /\ UNCHANGED <<users, clusters, problems, comments, now, seed, req, budget,
                   failed, fresh>>

\* SubmitProblem.handleSubmit calls app.post("/api/ai/analyze", ...), which
\* awaits analyzeProblemAI(text)
AnalyzeStart(u, outcome) ==
    /\ view.pc = "idle"
    /\ Quiet
    /\ budget > 0
    /\ budget' = budget - 1
    /\ view' = [view EXCEPT !.kind = "analyze", !.pc = "oracle", !.user = u,
                            !.oracle = outcome, !.analysis = Null, !.posted = FALSE]
    /\ UNCHANGED <<users, clusters, problems, comments, now, seed, req, failed, fresh>>

\* the oracle call settles; res.json(analysis); const analysis = await aiRes.json()
AnalyzeRespond ==
    /\ view.kind = "analyze"
    /\ view.pc = "oracle"
    /\ view.oracle # "silent"
    /\ view' = [view EXCEPT !.pc = "idle",
                            !.analysis = Some(AnalyzeProblemAI(view.oracle))]
    /\ UNCHANGED <<users, clusters, problems, comments, now, seed, req, budget,
                   failed, fresh>>

\* handleSubmit goes on: fetchWithAuth('/api/problems', { body: {..., analysis} }).
\* Followed for an analysis that has the six fields.
SubmitAnalyzed(r) ==
    /\ view.kind = "analyze"
    /\ view.pc = "idle"
    /\ IsSet(view.analysis)
    /\ ~view.posted
    /\ FieldsOf(Val(view.analysis)) = RequiredFields
    /\ FreeSlot(r)
    /\ Authorized(view.user, "citizen_admin")
    /\ LET a == Val(view.analysis)
       IN req' = [q \in Slots |->
                    IF q = r
                    THEN [IdleReq EXCEPT
                            !.kind = "submit", !.pc = "findFirst", !.user = view.user,
                            !.sugg = a.cluster_suggestion, !.location = "Kottapeta",
                            !.category = "Water", !.score = a.sentiment_score,
                            !.label = a.sentiment_label,
                            !.priority = a.priority_score, !.urgent = a.is_urgent,
                            !.alone = \A o \in Slots : ~Submitting(o)]
                    ELSE IF Submitting(q) THEN [req[q] EXCEPT !.alone = FALSE]
                    ELSE req[q]]
    /\ view' = [view EXCEPT !.posted = TRUE]
    /\ UNCHANGED <<users, clusters, problems, comments, now, seed, budget, failed, fresh>>

AnalyticsNext ==
    \/ \E u \in Ids(users) : GetStats(u)
    \/ \E u \in Ids(users), outcome \in NarrativeOutcomes, tie \in TieOrders :
          ReportStart(u, outcome, tie)
    \/ ReportRespond
    \/ \E u \in Ids(users), outcome \in ClassifyOutcomes : AnalyzeStart(u, outcome)
    \/ AnalyzeRespond
    \/ \E r \in Slots : SubmitAnalyzed(r)
    \/ \E r \in Slots : FindFirst(r)
    \/ \E r \in Slots : CreateCluster(r)
    \/ \E r \in Slots : CreateProblem(r)
    \/ \E r \in Slots : Count(r)
    \/ \E r \in Slots : Aggregate(r)
    \/ \E r \in Slots : Update(r)
    \/ \E r \in Slots : Return(r)

AnalyticsSpec == AnalyticsInit /\ [][AnalyticsNext]_vars

\* The server's event loop runs a handler's continuation once the promise it
\* awaits has settled
AnalyticsFairSpec ==
    AnalyticsSpec /\ WF_vars(ReportRespond) /\ WF_vars(AnalyzeRespond)

-----------------------------------------------------------------------------
(* The cluster resolver under either collation: submissions whose topic
   suggestions are spelled as the stored names are, or in small letters,
   on the seeded database. *)

Str_water == <<"w","a","t","e","r">>
Str_drainage == <<"d","r","a","i","n","a","g","e">>
ResolverSuggestions == {Str_Water, Str_water, Str_General, Str_drainage}

ResolverInit ==
    /\ LET db == SeededDb(SeededAt)
       IN /\ users = db.users
          /\ clusters = db.clusters
          /\ problems = db.problems
          /\ comments = db.comments
    /\ now = SeededAt + DayTicks
    /\ seed = [pc |-> "idle", runs |-> 1, todo |-> <<>>]
    /\ req = [r \in Slots |-> IdleReq]
    /\ budget = MaxCalls
    /\ failed = FALSE
    /\ fresh = {}
    /\ \E c \in Collations : view = [IdleView(Utc) EXCEPT !.collation = c]

ResolverNext ==
    \/ \E r \in Slots, u \in Ids(users), sugg \in ResolverSuggestions,
          loc \in InLocations, cat \in InCategories :
          SubmitStart(r, u, sugg, loc, cat, -5)
    \/ \E r \in Slots : FindFirst(r)
    \/ \E r \in Slots : CreateCluster(r)
    \/ \E r \in Slots : CreateProblem(r)
    \/ \E r \in Slots : Count(r)
    \/ \E r \in Slots : Aggregate(r)
    \/ \E r \in Slots : Update(r)
    \/ \E r \in Slots : Return(r)

ResolverSpec == ResolverInit /\ [][ResolverNext]_vars

-----------------------------------------------------------------------------
(* Claims *)

Done(r, kind) == req[r].kind = kind /\ req[r].pc = "ok"

\* C1: once every submission in flight has completed, every cluster's stored
\* problem_count is the number of reports assigned to it and its stored
\* avg_sentiment is their mean score (0 if none). Stated for the runs in
\* which no storage call has thrown.
C1_StatsMatchAfterSubmissions ==
    (Seeded /\ Quiet /\ ~failed)
        => \A c \in Ids(clusters) : Consistent(clusters, problems, c)

\* C2: cluster names are pairwise distinct in every reachable state, and
\* reports filed under one name are in one cluster.
C2_ClusterNamesDistinct ==
    /\ \A i, j \in Ids(clusters) :
          i # j => clusters[i].cluster_name # clusters[j].cluster_name
    /\ \A p, q \in Ids(problems) :
          clusters[problems[p].cluster_id].cluster_name
              = clusters[problems[q].cluster_id].cluster_name
          => problems[p].cluster_id = problems[q].cluster_id

\* C3: a submission answered with an error has left neither a cluster nor a
\* report behind.
C3_FailedSubmissionLeavesNothing ==
    \A r \in Slots :
        (req[r].kind = "submit" /\ req[r].pc = "error")
            => ~req[r].madeCluster /\ ~req[r].madeProblem

\* C4: when a submission completes with no other submission running beside it,
\* the stored statistics of its cluster are those its reports give, whatever
\* was stored before; the first report of a new cluster leaves count 1 and
\* the report's own score as the mean. The seed's sweep leaves every cluster
\* so.
C4_RefreshReconciles ==
    /\ \A r \in Slots :
          (Done(r, "submit") /\ req[r].alone)
              => /\ Consistent(clusters, problems, req[r].cluster)
                 /\ req[r].madeCluster
                      => /\ clusters[req[r].cluster].problem_count = 1
                         /\ clusters[req[r].cluster].avg_sentiment = Frac(req[r].score, 1)
    /\ seed.pc = "sweep"
          => \A c \in Ids(clusters) :
                (\A k \in 1..Len(seed.todo) : seed.todo[k] # c)
                    => Consistent(clusters, problems, c)

\* C4 witness: a submission that ran alone has completed on a cluster whose
\* stored statistics were wrong when it found it.
C4_Witness ==
    \E r \in Slots : Done(r, "submit") /\ req[r].alone /\ req[r].wasStale

\* C5: a refresh that follows a refresh of the same cluster, with no report
\* written to the cluster in between, leaves the stored problem_count and
\* avg_sentiment as they were.
C5_RefreshIdempotent ==
    [][ /\ \A r \in Slots :
             (/\ req[r].pc = "update" /\ req'[r].pc = "ok"
              /\ req[r].undisturbed /\ req[r].followsFresh
              /\ req[r].cluster \in fresh)
                 => clusters' = clusters
        /\ (seed.pc = "sweep" /\ seed.todo # <<>> /\ seed'.todo # seed.todo
            /\ Head(seed.todo) \in fresh)
                 => clusters' = clusters ]_vars

\* C5 witness: a submission's refresh has run right after another refresh of
\* the same cluster.
C5_Witness ==
    \E r \in Slots :
        Done(r, "submit") /\ req[r].undisturbed /\ req[r].followsFresh

\* C6: for the cluster set as it stands and any suggestion, the lookup has one
\* possible result.
C6_ResolveDeterministic ==
    \A s \in InSuggestions : Cardinality(ResolveOutcomes(clusters, s)) = 1

\* The clusters that existed before request r and whose name contains its
\* suggestion, and the reports cluster k held before it
MatchedBefore(r) ==
    {k \in Ids(clusters) :
        /\ Contains(clusters[k].cluster_name, req[r].sugg)
        /\ ~(req[r].madeCluster /\ k = req[r].cluster)}
HeldBefore(r, k) == Members(problems, k) \ {req[r].problem}

JoinedAsSecond(r, k) ==
    LET first == CHOOSE p \in HeldBefore(r, k) : TRUE
    IN /\ ~req[r].madeCluster
       /\ problems[req[r].problem].cluster_id = problems[first].cluster_id
       /\ clusters[k].problem_count = 2
       /\ clusters[k].avg_sentiment
              = Frac(problems[first].sentiment_score + req[r].score, 2)

\* C7 (as claimed): a submission whose suggestion is part of the name of an
\* existing cluster that holds one report creates no cluster and joins that
\* report: same cluster_id, count 2, mean the average of the two scores.
C7_SubstringMatchJoins ==
    \A r \in Slots :
        (Done(r, "submit") /\ req[r].alone)
            => \A k \in MatchedBefore(r) :
                  Cardinality(HeldBefore(r, k)) = 1 => JoinedAsSecond(r, k)

\* C7 (amended): the same, when that cluster is the only one whose name
\* contains the suggestion and no other submission runs beside this one.
C7_OnlyMatchJoins ==
    \A r \in Slots :
        (Done(r, "submit") /\ req[r].alone /\ Cardinality(MatchedBefore(r)) = 1)
            => \A k \in MatchedBefore(r) :
                  Cardinality(HeldBefore(r, k)) = 1 => JoinedAsSecond(r, k)

\* C7 witness: a submission has joined the one report of the only cluster
\* whose name contains its suggestion.
C7_Witness ==
    \E r \in Slots :
        /\ Done(r, "submit") /\ req[r].alone
        /\ Cardinality(MatchedBefore(r)) = 1
        /\ \E k \in MatchedBefore(r) :
              /\ Cardinality(HeldBefore(r, k)) = 1
              /\ req[r].sugg # clusters[k].cluster_name
              /\ JoinedAsSecond(r, k)

\* C8: every report has resolved_at set exactly when its status is Resolved,
\* and then resolved_at is not before created_at.
C8_ResolvedAtIffResolved ==
    \A i \in Ids(problems) :
        /\ IsSet(problems[i].resolved_at) <=> problems[i].status = "Resolved"
        /\ IsSet(problems[i].resolved_at)
              => Val(problems[i].resolved_at) >= problems[i].created_at

\* C9: a Resolved report stays Resolved, and no report moves from In Progress
\* back to Pending.
C9_StatusOnlyMovesForward ==
    [][ \A i \in Ids(problems) :
          /\ problems[i].status = "Resolved" => problems'[i].status = "Resolved"
          /\ ~(problems[i].status = "In Progress" /\ problems'[i].status = "Pending")
      ]_vars

\* C10: each report has at most one feedback record.
C10_AtMostOneFeedback ==
    \A i, j \in Ids(comments) :
        i # j => comments[i].problem_id # comments[j].problem_id

\* C11: a feedback record is created only while the report's status is
\* Resolved, and a feedback request that finds its report Pending or In
\* Progress is turned down and writes no feedback.
C11_FeedbackOnlyWhenResolved ==
    [][ \A r \in Slots :
          /\ (req[r].pc = "createComment" /\ req'[r].pc = "ok")
                => problems[req[r].target].status = "Resolved"
          /\ (/\ req[r].pc = "findUnique" /\ req'[r].pc # "findUnique"
              /\ req[r].target \in Ids(problems)
              /\ problems[req[r].target].status \in {"Pending", "In Progress"})
                => req'[r].pc \in {"rejected", "error"} /\ comments' = comments
      ]_vars

\* The whole seconds from a report's created_at to its resolved_at
WholeSeconds(p) == ((Val(p.resolved_at) - p.created_at) * TickMs) \div MsPerSecond

\* C12: each feedback record, whether the feedback endpoint or the seed
\* writes it, is written with time_taken equal to the whole seconds from the
\* report's created_at to its resolved_at as the report stands at that
\* moment.
C12_TimeTakenIsResolutionSeconds ==
    [][ \A i \in (Len(comments) + 1)..Len(comments') :
          /\ comments'[i].problem_id \in Ids(problems')
          /\ IsSet(problems'[comments'[i].problem_id].resolved_at)
          /\ comments'[i].time_taken
                = WholeSeconds(problems'[comments'[i].problem_id])
      ]_vars

\* C13: every feedback record was written by the user who owns its report.
C13_FeedbackByOwnerOnly ==
    \A i \in Ids(comments) :
        comments[i].citizen_id = problems[comments[i].problem_id].user_id

\* C14: the trends of a stats response are 30 buckets, one for each of the 30
\* calendar days that end today, in ascending order, and a day on which no
\* report was created or resolved has active = 0 and resolved = 0.
C14_TrendsCoverLast30Days ==
    IsSet(view.stats)
        => LET tr == Val(view.stats).trends
               today == IsoDate(now)
           IN /\ Len(tr) = TrendDays
              /\ \A k \in 1..Len(tr) :
                    /\ tr[k].date = today - TrendDays + k
                    /\ (\A i \in Ids(problems) :
                           /\ IsoDate(problems[i].created_at) # tr[k].date
                           /\ IsSet(problems[i].resolved_at)
                                 => IsoDate(Val(problems[i].resolved_at)) # tr[k].date)
                          => tr[k].active = 0 /\ tr[k].resolved = 0

\* The categories some feedback record refers to, through its report
RatedCategories == {problems[comments[i].problem_id].category : i \in Ids(comments)}

\* C15: the resolution times of a stats response and of a strategic report
\* have an entry for exactly the categories that some feedback refers to, and
\* every entry of the handler's table was made from at least one feedback.
C15_EfficiencyOnlyForRatedCategories ==
    /\ IsSet(view.stats)
          => DOMAIN Val(view.stats).resolutionTimes = RatedCategories
    /\ IsSet(view.report)
          => DOMAIN Val(view.report).resolutionTimes = RatedCategories
    /\ \A cat \in DOMAIN view.timesMap :
          /\ cat \in RatedCategories
          /\ view.timesMap[cat].count >= 1

\* C15 witness: a response lists a resolution time for one category and none
\* for another category that has reports but no feedback.
C15_Witness ==
    /\ IsSet(view.stats)
    /\ IsSet(view.report)
    /\ DOMAIN Val(view.stats).resolutionTimes # {}
    /\ \E i \in Ids(problems) :
          /\ problems[i].category \notin DOMAIN Val(view.stats).resolutionTimes
          /\ problems[i].category \notin DOMAIN Val(view.report).resolutionTimes

\* C16: for the same stored data, the stats response and the strategic report
\* give each category the same avg_time.
C16_SameUnitAcrossConsumers ==
    (IsSet(view.stats) /\ IsSet(view.report))
        => \A cat \in DOMAIN Val(view.stats).resolutionTimes
                        \cap DOMAIN Val(view.report).resolutionTimes :
              Val(view.stats).resolutionTimes[cat]
                  = Val(view.report).resolutionTimes[cat]

\* C17: when the narrative oracle call fails, the strategic report is answered
\* with status 200, the placeholder as aiSummary, and the commonIssues,
\* negativeSentimentAreas and resolutionTimes the handler read, as a report
\* with the oracle's text would carry them.
C17_ReportSurvivesOracleFailure ==
    (view.kind = "report" /\ view.pc = "idle" /\ view.oracle = "throws")
        => /\ IsSet(view.report)
           /\ Val(view.report).status = 200
           /\ Val(view.report).aiSummary = Placeholder
           /\ Val(view.report).commonIssues = view.issues
           /\ Val(view.report).negativeSentimentAreas = view.areas
           /\ Val(view.report).resolutionTimes = view.times
           /\ \E tie \in TieOrders :
                 /\ view.issues = CommonIssues(problems, tie)
                 /\ view.areas = NegativeSentimentAreas(problems, tie)

\* C17 witness: a strategic report has been answered after its oracle call
\* failed, and it lists issues and areas.
C17_Witness ==
    /\ view.kind = "report" /\ view.pc = "idle" /\ view.oracle = "throws"
    /\ IsSet(view.report)
    /\ Val(view.report).commonIssues # <<>>
    /\ Val(view.report).negativeSentimentAreas # <<>>

\* C18: every analysis the classifier adapter returns has the six fields, and
\* it is the fallback whenever the oracle failed or its output was empty,
\* field-less or not JSON.
C18_FallbackOnAnyBadOutput ==
    (view.kind = "analyze" /\ IsSet(view.analysis))
        => /\ FieldsOf(Val(view.analysis)) = RequiredFields
           /\ view.oracle \in {"throws", "garbage", "empty", "partial"}
                 => Val(view.analysis) = Fallback

\* The submission request r is the one handleSubmit sent after an analyze
\* call whose oracle failed
AfterOracleFailure(r) ==
    /\ Done(r, "submit")
    /\ view.kind = "analyze" /\ view.posted
    /\ view.oracle \in {"throws", "garbage"}

StoredWithFallback(r) ==
    LET p == problems[req[r].problem]
    IN /\ p.sentiment_label = "Neutral"
       /\ p.sentiment_score = 0
       /\ p.priority_score = 5
       /\ ~p.is_urgent
       /\ p.cluster_id = req[r].cluster

\* C19 (as claimed): a submission made after the oracle failed is stored with
\* the fallback classification in a cluster named General.
C19_FallbackGoesToGeneral ==
    \A r \in Slots :
        AfterOracleFailure(r)
            => /\ StoredWithFallback(r)
               /\ clusters[req[r].cluster].cluster_name = Str_General

\* C19 (amended): such a submission is stored with the fallback classification
\* in a cluster whose name contains General: an existing one when there is
\* one, else a new cluster named General.
C19_FallbackGoesToMatchOfGeneral ==
    \A r \in Slots :
        AfterOracleFailure(r)
            => /\ StoredWithFallback(r)
               /\ Contains(clusters[req[r].cluster].cluster_name, Str_General)
               /\ IF MatchedBefore(r) = {}
                  THEN /\ req[r].madeCluster
                       /\ clusters[req[r].cluster].cluster_name = Str_General
                  ELSE /\ ~req[r].madeCluster
                       /\ req[r].cluster \in MatchedBefore(r)

\* C19 witness: a submission made after the oracle failed has created the
\* cluster General for its report.
C19_Witness ==
    \E r \in Slots :
        /\ AfterOracleFailure(r)
        /\ req[r].madeCluster
        /\ clusters[req[r].cluster].cluster_name = Str_General
        /\ problems[req[r].problem].cluster_id = req[r].cluster

\* C20: every analyze request and every strategic report request that has
\* called its oracle is answered in the end.
C20_OracleCallsAnswered ==
    (view.pc = "oracle") ~> (view.pc = "idle")

-----------------------------------------------------------------------------
(* The status update and its frame *)

\* The step in which the status handler of slot r writes its row.
Patches(r) ==
    /\ req[r].kind = "status"
    /\ req[r].pc = "updateStatus"
    /\ req'[r].pc = "ok"

\* The row with its status and its resolution time blanked.
Rest(p) == [p EXCEPT !.status = "", !.resolved_at = Null]

\* C21: a status update changes only the status and the resolution time of
\* the addressed report: its other fields, every other report, all feedback
\* and every cluster (count and mean sentiment included) stay as they were.
C21_StatusUpdateFrame ==
    [][\A r \in Slots :
         Patches(r) =>
           /\ Ids(problems') = Ids(problems)
           /\ \A i \in Ids(problems) :
                 IF i = req[r].target
                 THEN Rest(problems'[i]) = Rest(problems[i])
                 ELSE problems'[i] = problems[i]
           /\ comments' = comments
           /\ clusters' = clusters
           /\ users' = users]_vars

\* A status update to Resolved has been written on a report that was not
\* resolved before, next to other reports, feedback and refreshed clusters.
C21_Witness ==
    \E r \in Slots :
      /\ Done(r, "status")
      /\ req[r].status = "Resolved"
      /\ req[r].target \in Ids(problems)
      /\ problems[req[r].target].status = "Resolved"
      /\ problems[req[r].target].resolved_at = Some(now)
      /\ Len(problems) > 1
      /\ Len(comments) > 0
      /\ \E c \in Ids(clusters) : clusters[c].problem_count > 0

\* The step in which the handler of slot r, addressed at an id that no stored
\* report has, is answered, with the storage layer working.
AnswersMissing(r) ==
    /\ req[r].pc \in {"updateStatus", "findUnique"}
    /\ req[r].target \notin Ids(problems)
    /\ req'[r].pc \in Responded
    /\ failed' = failed

\* C22: a status update or a feedback submission addressed at an id that no
\* stored report has is answered with a not-found outcome of its own, which
\* is neither the storage-failure outcome nor the not-resolved outcome, and
\* changes no stored state.
C22_MissingReportIsNotFound ==
    [][\A r \in Slots :
         AnswersMissing(r) =>
           /\ req'[r].pc \notin {"error", "rejected"}
           /\ <<users, clusters, problems, comments>>' =
                <<users, clusters, problems, comments>>]_vars

\* C30: once a report's resolution time is set, no later status update
\* changes it, whether the update sets Resolved again or another status.
C30_ResolvedAtWrittenOnce ==
    [][\A i \in Ids(problems) :
         IsSet(problems[i].resolved_at) =>
           problems'[i].resolved_at = problems[i].resolved_at]_vars

\* The sum, over the feedback records S, of the whole seconds from the
\* referenced report's creation to its resolution as the report stands now.
RECURSIVE SumCurrent(_, _, _)
SumCurrent(cms, ps, S) ==
    IF S = {} THEN 0
    ELSE LET i == CHOOSE x \in S : TRUE
         IN WholeSeconds(ps[cms[i].problem_id]) + SumCurrent(cms, ps, S \ {i})

\* C26: after any sequence of submissions, status updates (a report may be
\* resolved more than once) and feedback, the resolution time the strategic
\* report gives for a category is the mean, over the feedback records of the
\* category, of the referenced report's current resolved_at minus its
\* created_at, in seconds.
C26_TimesFollowCurrentResolution ==
    Seeded =>
      LET times == StrategicTimes(comments, problems)
      IN \A cat \in DOMAIN times :
           LET S == {i \in Ids(comments) :
                       problems[comments[i].problem_id].category = cat}
           IN times[cat] = Frac(SumCurrent(comments, problems, S), Cardinality(S))

-----------------------------------------------------------------------------
(* The trends of GET /api/stats *)

\* The reports caller u may see, by the handler's rule of scope.
Visible(u) ==
    {i \in Ids(problems) :
        users[u].role = "municipal_admin" \/ problems[i].user_id = u}

\* C23: in the trends of a stats response, the resolved count of a day is the
\* number of reports in the caller's scope whose resolved_at falls on that
\* day, whenever they were created: a report created more than 30 days ago
\* and resolved within the window is counted.
C23_ResolvedCountedByResolutionDay ==
    [][\A u \in Ids(users) :
         GetStats(u) =>
           LET tr == Val(view'.stats).trends
           IN \A k \in 1..Len(tr) :
                tr[k].resolved =
                  Cardinality({i \in Visible(u) :
                                 /\ IsSet(problems[i].resolved_at)
                                 /\ IsoDate(Val(problems[i].resolved_at))
                                      = tr[k].date})]_vars

RECURSIVE SumActive(_, _)
SumActive(tr, k) == IF k = 0 THEN 0 ELSE tr[k].active + SumActive(tr, k - 1)

-----------------------------------------------------------------------------
(* The rankings of GET /api/reports/strategic *)

\* The category and location names of the stored data, in ascending order.
NamesAscending ==
    <<"Bus Stand", "Colony Area", "Electricity", "Garbage", "Kottapeta",
      "Main Road", "Market Area", "Other", "Roads", "Water">>
NameRank(name) == CHOOSE k \in 1..Len(NamesAscending) : NamesAscending[k] = name

\* The categories by descending count, equal counts by ascending name.
IssuesByName(ps) ==
    LET cats == {ps[i].category : i \in Ids(ps)}
        n(c) == Cardinality({i \in Ids(ps) : ps[i].category = c})
        before == {pair \in cats \X cats :
                     \/ n(pair[1]) > n(pair[2])
                     \/ /\ n(pair[1]) = n(pair[2])
                        /\ NameRank(pair[1]) < NameRank(pair[2])}
        order == InOrder(cats, before)
    IN Take([k \in 1..Len(order) |-> [category |-> order[k], count |-> n(order[k])]],
            TopGroups)

\* C27: the commonIssues of a strategic report are the (at most) 5 categories
\* with the highest counts, in descending order of count, categories of equal
\* count in ascending order of name: one list for given stored reports.
C27_CommonIssuesTiesByName ==
    view.kind = "report" => view.issues = IssuesByName(problems)

\* The locations by ascending mean score, equal means by ascending name.
AreasByName(ps) ==
    LET locs == {ps[i].location : i \in Ids(ps)}
        avg(l) == MeanOf(ps, {i \in Ids(ps) : ps[i].location = l})
        before == {pair \in locs \X locs :
                     \/ FracLess(avg(pair[1]), avg(pair[2]))
                     \/ /\ avg(pair[1]) = avg(pair[2])
                        /\ NameRank(pair[1]) < NameRank(pair[2])}
        order == InOrder(locs, before)
    IN Take([k \in 1..Len(order) |-> [location |-> order[k], avg |-> avg(order[k])]],
            TopGroups)

\* C28: the negativeSentimentAreas of a strategic report are the (at most) 5
\* locations with the lowest mean score, the most negative first, locations
\* of equal mean in ascending order of name.
C28_NegativeAreasTiesByName ==
    view.kind = "report" => view.areas = AreasByName(problems)

-----------------------------------------------------------------------------
(* What a citizen's stats response depends on *)

\* C29: the stats response to a citizen depends on the caller's own reports
\* and the feedback on them only: it is the response the same request gets
\* when nothing else is stored, so its totals count the caller's reports, its
\* avgSentiment is the mean score of the caller's reports (0 if none) and
\* its resolutionTimes list the categories of the caller's rated reports.
C29_CitizenStatsFromOwnReports ==
    [][\A u \in Ids(users) :
         (GetStats(u) /\ users[u].role # "municipal_admin") =>
           LET s == Val(view'.stats)
               own == {i \in Ids(problems) : problems[i].user_id = u}
               rated == {i \in Ids(comments) : comments[i].problem_id \in own}
           IN /\ s.totalProblems = Cardinality(own)
              /\ s.activeProblems + s.resolvedProblems = Cardinality(own)
              /\ s.avgSentiment = MeanOf(problems, own)
              /\ DOMAIN s.resolutionTimes =
                   {problems[comments[i].problem_id].category : i \in rated}]_vars

-----------------------------------------------------------------------------
(* The cluster resolver *)

\* The clusters whose name contains the text s, letter case set aside.
MatchesAnyCase(s) ==
    {i \in Ids(clusters) : Contains(Fold(clusters[i].cluster_name), Fold(s))}

\* C25: the resolver returns an existing cluster whenever the name of some
\* existing cluster contains the suggestion as a substring, compared without
\* regard to letter case; otherwise it creates exactly one new cluster, with
\* the suggestion as its name, the location as its area, count 0 and mean 0,
\* and returns that cluster.
C25_ResolverMatchesAnyCase ==
    [][\A r \in Slots :
         /\ (req[r].pc = "findFirst"
               /\ req'[r].pc \in {"createCluster", "createProblem"}) =>
              IF MatchesAnyCase(req[r].sugg) # {}
              THEN /\ req'[r].pc = "createProblem"
                   /\ req'[r].cluster \in MatchesAnyCase(req[r].sugg)
                   /\ clusters' = clusters
              ELSE req'[r].pc = "createCluster"
         /\ (req[r].pc = "createCluster" /\ req'[r].pc = "createProblem") =>
              /\ clusters' = Append(clusters,
                                    [cluster_name |-> req[r].sugg,
                                     area |-> req[r].location,
                                     problem_count |-> 0,
                                     avg_sentiment |-> Zero])
              /\ req'[r].cluster = Len(clusters')]_vars

====
